---- MODULE Spec2Model ----
(***************************************************************************)
(* Two-pass OCR merge: the containment test, the identity key, the merge   *)
(* of picture-grounding results into the layout document                   *)
(* (integrate_children.py) and the page orchestrator (pipeline.py) with    *)
(* its external parser calls (adapters/dots_client.py).                    *)
(*                                                                         *)
(* Coordinates are held in half units: the integer v stands for the        *)
(* coordinate v/2, so that the default tolerance 0.5 is the integer 1 and  *)
(* the halves that round() sends up or down are representable.             *)
(***************************************************************************)
EXTENDS Integers, Sequences, FiniteSets, TLC

VARIABLES
    layout,                 \* the document {"blocks": [...], "meta": {...}}
    before,                 \* the document as it was before the last merge (history)
    pc,                     \* position in the operation being run
    max_pictures_per_page,  \* process_page's cap
    pictures,               \* collect_pictures(layout): indexes into layout.blocks
    pos,                    \* position of process_page's loop in pictures
    count,                  \* process_page's counter of grounded pictures
    per_picture_grounding,  \* list of (picture, grounding) pairs
    calls,                  \* external parser calls issued so far (history)
    returned,               \* whether the operation returned a document
    dedup_exact,            \* attach_picture_children's keyword argument
    ncalls,                 \* attach_picture_children calls made so far
    deduped,                \* fragments the last call dropped as duplicates
    layout21,               \* the second document of the call-order experiment
    outer, inner, tol,      \* arguments of _contains
    result                  \* value returned by _contains

vars == <<layout, before, pc, max_pictures_per_page, pictures, pos, count,
          per_picture_grounding, calls, returned, dedup_exact, ncalls, deduped,
          layout21, outer, inner, tol, result>>

pageVars == <<max_pictures_per_page, pictures, pos, count, calls, returned>>
containsVars == <<outer, inner, tol, result>>

-----------------------------------------------------------------------------
(* Bounds of the model *)

\* longest grounding result, in blocks
MaxFrags == 2
\* attach_picture_children calls in one run of the accumulation experiment
MaxMerges == 3
\* repeated calls with the same grounding result
MaxRepeats == 2
\* longest first-pass layout, in blocks
MaxBlocks == 3
\* longest grounding result of the page orchestrator's runs, in blocks
MaxPageFrags == 1
\* largest cap process_page is run with
MaxCap == 3
\* largest coordinate (half units) of the boxes _contains is applied to
MaxCoord == 4
\* largest tolerance (half units) _contains is applied with
MaxTol == 2

\* default of _contains' tol, 0.5, in half units
DefaultTol == 1

Absent == "<absent>"
NoDoc == [blocks |-> <<>>, meta |-> [source |-> "<none>", merge_version |-> "<none>"]]

-----------------------------------------------------------------------------
(* integrate_children.py: pure helpers *)

\* Python 3 round() on the coordinate v/2: to nearest, ties to even
Round(v) ==
    IF v % 2 = 0 THEN v \div 2
    ELSE LET k == (v - 1) \div 2 IN IF k % 2 = 0 THEN k ELSE k + 1

_bbox_key(bbox) == <<Round(bbox[1]), Round(bbox[2]), Round(bbox[3]), Round(bbox[4])>>

\* mutations of _contains: strict bounds; the x axis left out
_contains_strict(o, i, t) ==
    /\ i[1] > o[1] - t
    /\ i[2] > o[2] - t
    /\ i[3] < o[3] + t
    /\ i[4] < o[4] + t

_contains_y_only(o, i, t) ==
    /\ i[2] >= o[2] - t
    /\ i[4] <= o[4] + t

\* _contains(outer, inner, tol), tol in half units
_contains(o, i, t) ==
    /\ i[1] >= o[1] - t
    /\ i[2] >= o[2] - t
    /\ i[3] <= o[3] + t
    /\ i[4] <= o[4] + t

\* float() of a number keeps its value; conf is not carried by the model's blocks
_to_picturetext_block(txt_blk) ==
    [category |-> "PictureText",
     bbox     |-> <<txt_blk.bbox[1], txt_blk.bbox[2], txt_blk.bbox[3], txt_blk.bbox[4]>>,
     text     |-> txt_blk.text,
     source   |-> "picture-ocr"]

-----------------------------------------------------------------------------
(* integrate_children.py: attach_picture_children *)

\* mutation of seen_of: the set starts empty whatever the picture holds
seen_unseeded(children, dedup) == {}

\* the keys of the children already attached (lines 66-70); a child's bbox
\* <<>> stands for a child without the "bbox" key, which the set leaves out
seen_of(children, dedup) ==
    IF dedup
    THEN {<<_bbox_key(children[k].bbox), children[k].text>> :
            k \in {j \in DOMAIN children :
                     /\ children[j].category = "PictureText"
                     /\ children[j].bbox # <<>>}}
    ELSE {}

\* mutation of merge_loop: a duplicate ends the loop (break for continue)
RECURSIVE merge_loop_break(_, _, _, _, _)
merge_loop_break(pb, blocks, children, seen, dedup) ==
    IF blocks = <<>> THEN children
    ELSE LET blk == Head(blocks)
             tb == blk.bbox
         IN  IF \/ blk.category # "Text"
                \/ Len(tb) # 4
                \/ ~ _contains(pb, tb, DefaultTol)
             THEN merge_loop_break(pb, Tail(blocks), children, seen, dedup)
             ELSE IF dedup /\ <<_bbox_key(tb), blk.text>> \in seen
             THEN children
             ELSE merge_loop_break(pb, Tail(blocks),
                                   Append(children, _to_picturetext_block(blk)),
                                   IF dedup THEN seen \cup {<<_bbox_key(tb), blk.text>>}
                                   ELSE seen,
                                   dedup)

\* mutation of merge_loop: the key of an appended block is not added to seen
RECURSIVE merge_loop_noadd(_, _, _, _, _)
merge_loop_noadd(pb, blocks, children, seen, dedup) ==
    IF blocks = <<>> THEN children
    ELSE LET blk == Head(blocks)
             tb == blk.bbox
         IN  IF \/ blk.category # "Text"
                \/ Len(tb) # 4
                \/ ~ _contains(pb, tb, DefaultTol)
                \/ (dedup /\ <<_bbox_key(tb), blk.text>> \in seen)
             THEN merge_loop_noadd(pb, Tail(blocks), children, seen, dedup)
             ELSE merge_loop_noadd(pb, Tail(blocks),
                                   Append(children, _to_picturetext_block(blk)),
                                   seen, dedup)

\* the loop over the grounding blocks (lines 76-91): the children list after
\* it.  blk.get("text", "") makes a block without text one with text "".
RECURSIVE merge_loop(_, _, _, _, _)
merge_loop(pb, blocks, children, seen, dedup) ==
    IF blocks = <<>> THEN children
    ELSE LET blk == Head(blocks)
             tb == blk.bbox
         IN  IF \/ blk.category # "Text"
                \/ Len(tb) # 4
                \/ ~ _contains(pb, tb, DefaultTol)
                \/ (dedup /\ <<_bbox_key(tb), blk.text>> \in seen)
             THEN merge_loop(pb, Tail(blocks), children, seen, dedup)
             ELSE merge_loop(pb, Tail(blocks),
                             Append(children, _to_picturetext_block(blk)),
                             IF dedup THEN seen \cup {<<_bbox_key(tb), blk.text>>}
                             ELSE seen,
                             dedup)

\* "picture-children" set to the list, or popped when the list is empty
\* (lines 93-96)
with_children(pic, children) ==
    IF children # <<>>
    THEN [pic EXCEPT !.hasChildren = TRUE, !.children = children]
    ELSE [pic EXCEPT !.hasChildren = FALSE, !.children = <<>>]

\* mutation of merge_picture: the category of the block is not looked at
merge_picture_any_category(pic, gjson, dedup) ==
    IF Len(pic.bbox) # 4 THEN pic
    ELSE with_children(pic, merge_loop(pic.bbox, gjson, pic.children,
                                       seen_of(pic.children, dedup), dedup))

\* the body of the loop over the pairs (lines 62-96), for one pair
merge_picture(pic, gjson, dedup) ==
    IF pic.category # "Picture" THEN pic
    ELSE IF Len(pic.bbox) # 4 THEN pic
    ELSE with_children(pic, merge_loop(pic.bbox, gjson, pic.children,
                                       seen_of(pic.children, dedup), dedup))

\* the loop over per_picture_grounding (line 61); a pair's picture is held as
\* its index in the document's blocks
RECURSIVE attach_blocks(_, _, _)
attach_blocks(blocks, ppg, dedup) ==
    IF ppg = <<>> THEN blocks
    ELSE attach_blocks([blocks EXCEPT ![Head(ppg).pic] =
                                          merge_picture(@, Head(ppg).gjson, dedup)],
                       Tail(ppg), dedup)

attach_picture_children(doc, ppg, dedup) ==
    [blocks |-> attach_blocks(doc.blocks, ppg, dedup),
     meta   |-> [doc.meta EXCEPT !.merge_version = "hier-v1",
                                 !.source = "dots+picture2pass"]]

-----------------------------------------------------------------------------
(* inputs of the merge *)

\* boxes in half units: the picture [2,2,6,6]; fragments inside it, at
\* [3,3,4,4] and [3,3,4,4.5] (one identity key), outside it beyond the
\* tolerance, and with three values only
PicBox == <<4, 4, 12, 12>>
BadBox == <<4, 4, 12>>
FragBoxes == {<<6, 6, 8, 8>>, <<6, 6, 8, 9>>, <<2, 4, 12, 12>>, <<6, 6, 8>>}
Texts == {"", "a"}
Fragments ==
    {[category |-> c, bbox |-> b, text |-> t] :
        c \in {"Text", "Formula"}, b \in FragBoxes, t \in Texts}

RECURSIVE SeqsUpTo(_, _)
SeqsUpTo(S, n) ==
    IF n = 0 THEN {<<>>}
    ELSE LET shorter == SeqsUpTo(S, n - 1)
         IN  shorter \cup {Append(s, x) : s \in {q \in shorter : Len(q) = n - 1}, x \in S}

Groundings == SeqsUpTo(Fragments, MaxFrags)

Child(cat, b, t, src) == [category |-> cat, bbox |-> b, text |-> t, source |-> src]
Block(cat, b, t, has, ch) ==
    [category |-> cat, bbox |-> b, text |-> t, hasChildren |-> has, children |-> ch]

\* children a picture may carry before the call: none, an empty list, a child
\* of an earlier merge, a child without bbox (tools/picture_ocr_pipeline.py:50)
\* and a child of another category
PriorChildren ==
    {<<>>,
     <<Child("PictureText", <<6, 6, 8, 8>>, "a", "picture-ocr")>>,
     <<Child("PictureText", <<>>, "a", Absent)>>,
     <<Child("Text", <<6, 6, 8, 8>>, "a", Absent)>>}

MergePictures ==
    {Block("Picture", PicBox, Absent, ch # <<>>, ch) : ch \in PriorChildren}
        \cup {Block("Picture", PicBox, Absent, TRUE, <<>>)}

OtherBlocks ==
    {Block("Picture", BadBox, Absent, TRUE,
           <<Child("PictureText", <<6, 6, 8, 8>>, "a", "picture-ocr")>>),
     Block("Picture", <<>>, Absent, TRUE, <<>>),
     Block("Text", <<6, 6, 8, 8>>, "a", FALSE, <<>>)}

NoMeta == [source |-> Absent, merge_version |-> Absent]

MergeDocs ==
    {[blocks |-> <<p, o>>, meta |-> NoMeta] : p \in MergePictures, o \in OtherBlocks}

\* Text blocks with four values that lie in the picture's box
Candidates(pb, gjson) ==
    {k \in DOMAIN gjson :
        /\ gjson[k].category = "Text"
        /\ Len(gjson[k].bbox) = 4
        /\ _contains(pb, gjson[k].bbox, DefaultTol)}

\* how many candidates of the pairs' groundings the call did not append
Dropped(doc, after, ppg) ==
    LET p == ppg[1]
        pic == doc.blocks[p.pic]
    IN  IF pic.category = "Picture" /\ Len(pic.bbox) = 4
        THEN Cardinality(Candidates(pic.bbox, p.gjson))
                 - (Len(after.blocks[p.pic].children) - Len(pic.children))
        ELSE 0

-----------------------------------------------------------------------------
(* attach_picture_children called on a document, then called again with the *)
(* same pairs.  A call with several pairs acts on the blocks as the calls   *)
(* with one pair each, in order (line 61), so the calls here carry one.     *)

idlePage ==
    /\ max_pictures_per_page = 0 /\ pictures = <<>> /\ pos = 0 /\ count = 0
    /\ calls = <<>> /\ returned = FALSE
idleContains == outer = <<>> /\ inner = <<>> /\ tol = 0 /\ result = FALSE

InitMerge ==
    /\ idlePage /\ idleContains
    /\ pc = "merge"
    /\ layout \in MergeDocs
    /\ before = layout
    /\ per_picture_grounding = <<>>
    /\ dedup_exact \in BOOLEAN
    /\ ncalls = 0
    /\ deduped = 0
    /\ layout21 = NoDoc

\* attach_picture_children(layout, [(pic, gjson)], dedup_exact=dedup_exact)
Attach ==
    /\ pc = "merge"
    /\ ncalls = 0
    /\ \E i \in DOMAIN layout.blocks, g \in Groundings :
          LET ppg == <<[pic |-> i, gjson |-> g]>>
              after == attach_picture_children(layout, ppg, dedup_exact)
          IN  /\ per_picture_grounding' = ppg
              /\ layout' = after
              /\ deduped' = Dropped(layout, after, ppg)
    /\ before' = layout
    /\ ncalls' = 1
    /\ UNCHANGED <<pc, dedup_exact, layout21>>
    /\ UNCHANGED pageVars
    /\ UNCHANGED containsVars

\* the same call once more
AttachAgain ==
    /\ pc = "merge"
    /\ ncalls >= 1
    /\ ncalls <= MaxRepeats
    /\ LET after == attach_picture_children(layout, per_picture_grounding, dedup_exact)
       IN  /\ layout' = after
           /\ deduped' = Dropped(layout, after, per_picture_grounding)
    /\ before' = layout
    /\ ncalls' = ncalls + 1
    /\ UNCHANGED <<pc, per_picture_grounding, dedup_exact, layout21>>
    /\ UNCHANGED pageVars
    /\ UNCHANGED containsVars

NextMerge == Attach \/ AttachAgain

SpecMerge == InitMerge /\ [][NextMerge]_vars

\* the picture of the call's pair, before and after the call
TargetBefore == before.blocks[per_picture_grounding[1].pic]
TargetAfter == layout.blocks[per_picture_grounding[1].pic]
TargetGrounding == per_picture_grounding[1].gjson

\* C1: with dedup_exact=True, merging the same grounding result a second time
\* leaves every block, and so the picture's picture-children list, exactly
\* as it was after the first merge: same length, elements and order.
C1_Idempotent ==
    (pc = "merge" /\ ncalls >= 2 /\ dedup_exact) => layout.blocks = before.blocks

\* the second merge of a result that added a child in the first merge, to a
\* picture that had a child already
C1_Witness ==
    /\ pc = "merge" /\ ncalls = 2 /\ dedup_exact
    /\ TargetAfter.category = "Picture"
    /\ Len(TargetAfter.children) >= 2
    /\ TargetAfter.children[1].category = "Text"
    /\ Candidates(TargetAfter.bbox, TargetGrounding) # {}
    /\ deduped >= 1

\* C7: attach_picture_children changes only the picture-children field of the
\* Picture blocks with a 4-element bbox that appear in per_picture_grounding
\* (and the document meta): the number and order of the blocks and every
\* other field of every block stay, and a block that is no Picture, or has
\* a missing or malformed bbox, or is in no pair, stays whole, its children
\* included.
C7_Frame ==
    (pc = "merge" /\ ncalls >= 1) =>
        /\ Len(layout.blocks) = Len(before.blocks)
        /\ \A i \in DOMAIN before.blocks :
              /\ layout.blocks[i].category = before.blocks[i].category
              /\ layout.blocks[i].bbox = before.blocks[i].bbox
              /\ layout.blocks[i].text = before.blocks[i].text
              /\ (\/ i # per_picture_grounding[1].pic
                  \/ before.blocks[i].category # "Picture"
                  \/ Len(before.blocks[i].bbox) # 4)
                     => layout.blocks[i] = before.blocks[i]

\* a call whose pair names a block that is no Picture, with a grounding
\* result holding a Text block that lies in that block's box
C7_Witness ==
    /\ pc = "merge" /\ ncalls = 1
    /\ TargetBefore.category = "Text"
    /\ Len(TargetBefore.bbox) = 4
    /\ Candidates(TargetBefore.bbox, TargetGrounding) # {}
    /\ layout.meta.source = "dots+picture2pass"

\* C9: a grounding block is converted and appended as a child only if its
\* category is Text, its bbox has exactly 4 values and its text is non-empty,
\* so every child the call appended has category PictureText, source
\* "picture-ocr", the bbox of such a block and a non-empty text.
C9_AppendedFromNonEmptyText ==
    (pc = "merge" /\ ncalls = 1) =>
        \A k \in DOMAIN TargetAfter.children :
            k > Len(TargetBefore.children) =>
                LET ch == TargetAfter.children[k]
                IN  /\ ch.category = "PictureText"
                    /\ ch.source = "picture-ocr"
                    /\ ch.text # ""
                    /\ \E j \in DOMAIN TargetGrounding :
                          /\ TargetGrounding[j].category = "Text"
                          /\ Len(TargetGrounding[j].bbox) = 4
                          /\ TargetGrounding[j].text # ""
                          /\ TargetGrounding[j].bbox = ch.bbox
                          /\ TargetGrounding[j].text = ch.text

-----------------------------------------------------------------------------
(* attach_picture_children called again and again on one picture that starts *)
(* without children, each call with a grounding result of its own            *)

FreshPicture == Block("Picture", PicBox, Absent, FALSE, <<>>)

InitAccum ==
    /\ idlePage /\ idleContains
    /\ pc = "accum"
    /\ layout = [blocks |-> <<FreshPicture>>, meta |-> NoMeta]
    /\ before = layout
    /\ per_picture_grounding = <<>>
    /\ dedup_exact = TRUE
    /\ ncalls = 0
    /\ deduped = 0
    /\ layout21 = NoDoc

\* attach_picture_children(layout, [(pic, gjson)], dedup_exact=dedup_exact)
Accumulate ==
    /\ pc = "accum"
    /\ ncalls < MaxMerges
    /\ \E g \in Groundings :
          LET ppg == <<[pic |-> 1, gjson |-> g]>>
              after == attach_picture_children(layout, ppg, dedup_exact)
          IN  /\ layout' = after
              /\ deduped' = Dropped(layout, after, ppg)
    /\ before' = layout
    /\ ncalls' = ncalls + 1
    /\ UNCHANGED <<pc, per_picture_grounding, dedup_exact, layout21>>
    /\ UNCHANGED pageVars
    /\ UNCHANGED containsVars

NextAccum == Accumulate

SpecAccum == InitAccum /\ [][NextAccum]_vars

ChildKey(ch) == <<_bbox_key(ch.bbox), ch.text>>

\* C10: from a Picture with a valid bbox and no children, after any sequence
\* of calls with dedup_exact=True, no two picture-children have the same
\* identity key (bbox rounded to integers, exact text), and the field is
\* never present as an empty list.
C10_UniqueKeys ==
    (pc = "accum" /\ dedup_exact) =>
        LET pic == layout.blocks[1]
        IN  /\ \A i, j \in DOMAIN pic.children :
                  i # j => ChildKey(pic.children[i]) # ChildKey(pic.children[j])
            /\ ~ (pic.hasChildren /\ pic.children = <<>>)
            /\ pic.hasChildren = (pic.children # <<>>)

\* a first call whose grounding result repeats a fragment within itself
C10_Witness ==
    /\ pc = "accum" /\ dedup_exact
    /\ ncalls = 1
    /\ deduped >= 1
    /\ Len(layout.blocks[1].children) >= 1

-----------------------------------------------------------------------------
(* two grounding results merged into one picture in both orders: G1 then G2 *)
(* into layout, G2 then G1 into layout21                                    *)

OrderFragments == {f \in Fragments : f.category = "Text" /\ Len(f.bbox) = 4}
OrderGroundings == SeqsUpTo(OrderFragments, MaxFrags)

InitOrder ==
    /\ idlePage /\ idleContains
    /\ pc = "o0"
    /\ layout = [blocks |-> <<FreshPicture>>, meta |-> NoMeta]
    /\ layout21 = layout
    /\ before = layout
    /\ \E g1 \in OrderGroundings, g2 \in OrderGroundings :
          per_picture_grounding = <<[pic |-> 1, gjson |-> g1], [pic |-> 1, gjson |-> g2]>>
    /\ dedup_exact = TRUE
    /\ ncalls = 0
    /\ deduped = 0

\* attach_picture_children(layout, [(pic, G1)])
MergeG1First ==
    /\ pc = "o0"
    /\ layout' = attach_picture_children(layout, <<per_picture_grounding[1]>>, dedup_exact)
    /\ pc' = "o1"
    /\ UNCHANGED <<before, per_picture_grounding, dedup_exact, ncalls, deduped, layout21>>
    /\ UNCHANGED pageVars
    /\ UNCHANGED containsVars

\* attach_picture_children(layout, [(pic, G2)])
MergeG2Second ==
    /\ pc = "o1"
    /\ layout' = attach_picture_children(layout, <<per_picture_grounding[2]>>, dedup_exact)
    /\ pc' = "o2"
    /\ UNCHANGED <<before, per_picture_grounding, dedup_exact, ncalls, deduped, layout21>>
    /\ UNCHANGED pageVars
    /\ UNCHANGED containsVars

\* attach_picture_children(layout21, [(pic, G2)])
MergeG2First ==
    /\ pc = "o2"
    /\ layout21' = attach_picture_children(layout21, <<per_picture_grounding[2]>>, dedup_exact)
    /\ pc' = "o3"
    /\ UNCHANGED <<before, per_picture_grounding, dedup_exact, ncalls, deduped, layout>>
    /\ UNCHANGED pageVars
    /\ UNCHANGED containsVars

\* attach_picture_children(layout21, [(pic, G1)])
MergeG1Second ==
    /\ pc = "o3"
    /\ layout21' = attach_picture_children(layout21, <<per_picture_grounding[1]>>, dedup_exact)
    /\ pc' = "o4"
    /\ UNCHANGED <<before, per_picture_grounding, dedup_exact, ncalls, deduped, layout>>
    /\ UNCHANGED pageVars
    /\ UNCHANGED containsVars

NextOrder == MergeG1First \/ MergeG2Second \/ MergeG2First \/ MergeG1Second

SpecOrder == InitOrder /\ [][NextOrder]_vars

ChildSet(doc) ==
    {<<doc.blocks[1].children[k].bbox, doc.blocks[1].children[k].text>> :
        k \in DOMAIN doc.blocks[1].children}
KeySet(doc) ==
    {ChildKey(doc.blocks[1].children[k]) : k \in DOMAIN doc.blocks[1].children}
\* the (bbox, text) pairs, and the identity keys, of the Text blocks of a
\* grounding result that have four values and lie in the picture's box
QualifyingSet(gjson) ==
    {<<gjson[k].bbox, gjson[k].text>> : k \in Candidates(PicBox, gjson)}
QualifyingKeys(gjson) ==
    {<<_bbox_key(gjson[k].bbox), gjson[k].text>> : k \in Candidates(PicBox, gjson)}
G1 == per_picture_grounding[1].gjson
G2 == per_picture_grounding[2].gjson

\* C2 as stated: both call orders yield the same set of (bbox, text)
\* children, drawn from the qualifying fragments of G1 and G2 and holding
\* one of each group of duplicates.
C2_SameChildrenBothOrders ==
    pc = "o4" =>
        /\ ChildSet(layout) = ChildSet(layout21)
        /\ ChildSet(layout) \subseteq QualifyingSet(G1) \cup QualifyingSet(G2)
        /\ KeySet(layout) = QualifyingKeys(G1) \cup QualifyingKeys(G2)

\* C2, amended: both call orders yield children with the same set of identity
\* keys (bbox rounded to integers, exact text), namely the keys of the
\* qualifying fragments of G1 and G2, each key once, and every child is a
\* qualifying fragment of G1 or G2; which of two fragments sharing a key is
\* kept depends on the call order.
C2_SameKeysBothOrders ==
    pc = "o4" =>
        /\ KeySet(layout) = KeySet(layout21)
        /\ KeySet(layout) = QualifyingKeys(G1) \cup QualifyingKeys(G2)
        /\ Cardinality(KeySet(layout)) = Len(layout.blocks[1].children)
        /\ Cardinality(KeySet(layout21)) = Len(layout21.blocks[1].children)
        /\ ChildSet(layout) \subseteq QualifyingSet(G1) \cup QualifyingSet(G2)
        /\ ChildSet(layout21) \subseteq QualifyingSet(G1) \cup QualifyingSet(G2)

\* both orders done, on results that share a key under different boxes, so
\* that the two orders keep different children
C2_Witness ==
    /\ pc = "o4"
    /\ ChildSet(layout) # ChildSet(layout21)
    /\ Len(layout.blocks[1].children) >= 2
    /\ G1 # G2

-----------------------------------------------------------------------------
(* adapters/dots_client.py *)

\* int(v) of a non-negative coordinate v/2, as passed to --bbox
Trunc(v) == v \div 2

\* _run_parser on what the parser process did: it exits non-zero (check=True
\* raises), or leaves no <base>.jsonl (open raises), or leaves one whose
\* first line is the meta, with the layout file it names present or not
_run_parser(run) ==
    IF run.exit # 0 \/ ~ run.jsonl
    THEN [raised |-> TRUE, blocks |-> <<>>, meta |-> NoMeta]
    ELSE [raised |-> FALSE,
          blocks |-> IF run.layout_file THEN run.blocks ELSE <<>>,
          meta   |-> run.meta]

run_layout(run) == _run_parser(run)
run_grounding(run) == _run_parser(run)

-----------------------------------------------------------------------------
(* pipeline.py *)

\* collect_pictures: the Picture blocks in document order, as indexes
RECURSIVE collect_pictures(_, _)
collect_pictures(blocks, from) ==
    IF from > Len(blocks) THEN <<>>
    ELSE IF blocks[from].category = "Picture"
    THEN <<from>> \o collect_pictures(blocks, from + 1)
    ELSE collect_pictures(blocks, from + 1)

\* mutation of stamp_layout_only: meta["source"] = "dots"
stamp_overwrite(meta) == [meta EXCEPT !.source = "dots"]

\* meta.setdefault("source", "dots") (line 28)
stamp_layout_only(meta) ==
    IF meta.source = Absent THEN [meta EXCEPT !.source = "dots"] ELSE meta

\* mutation of cap_reached: > for >=
cap_reached_late(n, cap) == n > cap

\* count >= max_pictures_per_page (line 35)
cap_reached(n, cap) == n >= cap

\* not bbox or len(bbox) != 4 (line 38)
bbox_malformed(bbox) == Len(bbox) # 4

-----------------------------------------------------------------------------
(* process_page on the pages a first pass may return *)

Pic2Box == <<14, 4, 22, 12>>
InPic1 == <<6, 6, 8, 8>>
InPic2 == <<16, 6, 18, 8>>

PageBlocks ==
    {Block("Picture", PicBox, Absent, FALSE, <<>>),
     Block("Picture", Pic2Box, Absent, TRUE,
           <<Child("PictureText", InPic2, "b", "picture-ocr")>>),
     Block("Picture", BadBox, Absent, TRUE,
           <<Child("PictureText", InPic1, "b", "picture-ocr")>>),
     Block("Text", InPic1, "t", FALSE, <<>>)}

PageMetas == {NoMeta, [source |-> "custom", merge_version |-> Absent]}

PageFragments ==
    {[category |-> "Text", bbox |-> b, text |-> "a"] : b \in {InPic1, InPic2}}
PageGroundings == SeqsUpTo(PageFragments, MaxPageFrags)

\* what the parser process may do
FailedRuns ==
    {[exit |-> 1, jsonl |-> FALSE, layout_file |-> FALSE, blocks |-> <<>>, meta |-> NoMeta],
     [exit |-> 0, jsonl |-> FALSE, layout_file |-> FALSE, blocks |-> <<>>, meta |-> NoMeta]}
LayoutRuns ==
    FailedRuns
    \cup {[exit |-> 0, jsonl |-> TRUE, layout_file |-> TRUE, blocks |-> b, meta |-> m] :
            b \in SeqsUpTo(PageBlocks, MaxBlocks), m \in PageMetas}
    \cup {[exit |-> 0, jsonl |-> TRUE, layout_file |-> FALSE,
           blocks |-> <<Block("Picture", PicBox, Absent, FALSE, <<>>)>>, meta |-> NoMeta]}
GroundingRuns ==
    FailedRuns
    \cup {[exit |-> 0, jsonl |-> TRUE, layout_file |-> TRUE, blocks |-> g, meta |-> NoMeta] :
            g \in PageGroundings}

InitPage ==
    /\ idleContains
    /\ pc = "start"
    /\ max_pictures_per_page \in 0..MaxCap
    /\ layout = NoDoc
    /\ before = NoDoc
    /\ pictures = <<>>
    /\ pos = 0
    /\ count = 0
    /\ per_picture_grounding = <<>>
    /\ calls = <<>>
    /\ returned = FALSE
    /\ dedup_exact = TRUE
    /\ ncalls = 0
    /\ deduped = 0
    /\ layout21 = NoDoc

mergeIdle == UNCHANGED <<dedup_exact, ncalls, deduped, layout21>>

\* line 23: run_layout returns the first-pass document
RunLayoutOk ==
    /\ pc = "start"
    /\ \E run \in LayoutRuns :
          LET r == run_layout(run)
          IN  /\ ~ r.raised
              /\ layout' = [blocks |-> r.blocks, meta |-> r.meta]
              /\ before' = layout'
    /\ calls' = Append(calls, [kind |-> "layout", pic |-> 0, bbox |-> <<>>])
    /\ pc' = "collect"
    /\ UNCHANGED <<max_pictures_per_page, pictures, pos, count, per_picture_grounding, returned>>
    /\ mergeIdle
    /\ UNCHANGED containsVars

\* line 23: run_layout raises, and process_page with it
RunLayoutFail ==
    /\ pc = "start"
    /\ \E run \in LayoutRuns : run_layout(run).raised
    /\ calls' = Append(calls, [kind |-> "layout", pic |-> 0, bbox |-> <<>>])
    /\ pc' = "failed"
    /\ UNCHANGED <<layout, before, max_pictures_per_page, pictures, pos, count,
                   per_picture_grounding, returned>>
    /\ mergeIdle
    /\ UNCHANGED containsVars

\* lines 25-30: no Picture block, the document is returned after the stamp
ReturnLayoutOnly ==
    /\ pc = "collect"
    /\ collect_pictures(layout.blocks, 1) = <<>>
    /\ layout' = [layout EXCEPT !.meta = stamp_layout_only(@)]
    /\ returned' = TRUE
    /\ pc' = "done"
    /\ UNCHANGED <<before, max_pictures_per_page, pictures, pos, count,
                   per_picture_grounding, calls>>
    /\ mergeIdle
    /\ UNCHANGED containsVars

\* lines 25-34: some Picture block, the loop over the pictures starts
StartLoop ==
    /\ pc = "collect"
    /\ collect_pictures(layout.blocks, 1) # <<>>
    /\ pictures' = collect_pictures(layout.blocks, 1)
    /\ per_picture_grounding' = <<>>
    /\ count' = 0
    /\ pos' = 1
    /\ pc' = "loop"
    /\ UNCHANGED <<layout, before, max_pictures_per_page, calls, returned>>
    /\ mergeIdle
    /\ UNCHANGED containsVars

\* lines 35-36: the cap is reached, break
LoopBreak ==
    /\ pc = "loop"
    /\ pos <= Len(pictures)
    /\ cap_reached(count, max_pictures_per_page)
    /\ pc' = "attach"
    /\ UNCHANGED <<layout, before, max_pictures_per_page, pictures, pos, count,
                   per_picture_grounding, calls, returned>>
    /\ mergeIdle
    /\ UNCHANGED containsVars

\* lines 37-39: a picture without a 4-element bbox is passed over
LoopSkip ==
    /\ pc = "loop"
    /\ pos <= Len(pictures)
    /\ ~ cap_reached(count, max_pictures_per_page)
    /\ bbox_malformed(layout.blocks[pictures[pos]].bbox)
    /\ pos' = pos + 1
    /\ UNCHANGED <<layout, before, pc, max_pictures_per_page, pictures, count,
                   per_picture_grounding, calls, returned>>
    /\ mergeIdle
    /\ UNCHANGED containsVars

GroundingCall(i) ==
    [kind |-> "grounding", pic |-> i,
     bbox |-> <<Trunc(layout.blocks[i].bbox[1]), Trunc(layout.blocks[i].bbox[2]),
                Trunc(layout.blocks[i].bbox[3]), Trunc(layout.blocks[i].bbox[4])>>]

\* the mutation of GroundOk that merges each grounding result as it arrives
GroundOkEager ==
    /\ pc = "loop"
    /\ pos <= Len(pictures)
    /\ ~ cap_reached(count, max_pictures_per_page)
    /\ ~ bbox_malformed(layout.blocks[pictures[pos]].bbox)
    /\ \E run \in GroundingRuns :
          LET r == run_grounding(run)
              pair == [pic |-> pictures[pos], gjson |-> r.blocks]
          IN  /\ ~ r.raised
              /\ per_picture_grounding' = Append(per_picture_grounding, pair)
              /\ layout' = attach_picture_children(layout, <<pair>>, TRUE)
    /\ calls' = Append(calls, GroundingCall(pictures[pos]))
    /\ count' = count + 1
    /\ pos' = pos + 1
    /\ UNCHANGED <<before, pc, max_pictures_per_page, pictures, returned>>
    /\ mergeIdle
    /\ UNCHANGED containsVars

\* lines 40-42: run_grounding returns, the pair is kept, count goes up
GroundOk ==
    /\ pc = "loop"
    /\ pos <= Len(pictures)
    /\ ~ cap_reached(count, max_pictures_per_page)
    /\ ~ bbox_malformed(layout.blocks[pictures[pos]].bbox)
    /\ \E run \in GroundingRuns :
          LET r == run_grounding(run)
          IN  /\ ~ r.raised
              /\ per_picture_grounding' =
                     Append(per_picture_grounding,
                            [pic |-> pictures[pos], gjson |-> r.blocks])
    /\ calls' = Append(calls, GroundingCall(pictures[pos]))
    /\ count' = count + 1
    /\ pos' = pos + 1
    /\ UNCHANGED <<layout, before, pc, max_pictures_per_page, pictures, returned>>
    /\ mergeIdle
    /\ UNCHANGED containsVars

\* line 40: run_grounding raises, and process_page with it
GroundFail ==
    /\ pc = "loop"
    /\ pos <= Len(pictures)
    /\ ~ cap_reached(count, max_pictures_per_page)
    /\ ~ bbox_malformed(layout.blocks[pictures[pos]].bbox)
    /\ \E run \in GroundingRuns : run_grounding(run).raised
    /\ calls' = Append(calls, GroundingCall(pictures[pos]))
    /\ pc' = "failed"
    /\ UNCHANGED <<layout, before, max_pictures_per_page, pictures, pos, count,
                   per_picture_grounding, returned>>
    /\ mergeIdle
    /\ UNCHANGED containsVars

\* line 34: the pictures are exhausted
LoopEnd ==
    /\ pc = "loop"
    /\ pos > Len(pictures)
    /\ pc' = "attach"
    /\ UNCHANGED <<layout, before, max_pictures_per_page, pictures, pos, count,
                   per_picture_grounding, calls, returned>>
    /\ mergeIdle
    /\ UNCHANGED containsVars

\* lines 44-45: the pairs are merged and the document is returned
AttachAndReturn ==
    /\ pc = "attach"
    /\ layout' = attach_picture_children(layout, per_picture_grounding, TRUE)
    /\ returned' = TRUE
    /\ pc' = "done"
    /\ UNCHANGED <<before, max_pictures_per_page, pictures, pos, count,
                   per_picture_grounding, calls>>
    /\ mergeIdle
    /\ UNCHANGED containsVars

NextPage ==
    \/ RunLayoutOk \/ RunLayoutFail \/ ReturnLayoutOnly \/ StartLoop
    \/ LoopBreak \/ LoopSkip \/ GroundOk \/ GroundFail \/ LoopEnd
    \/ AttachAndReturn

SpecPage == InitPage /\ [][NextPage]_vars

\* the Picture blocks of the first pass, and those with a 4-element bbox
AllPictures == collect_pictures(before.blocks, 1)
IsValidPicture(k) == Len(before.blocks[k].bbox) = 4
WellFormedPictures == SelectSeq(AllPictures, IsValidPicture)
\* the pictures of the pairs, and of the grounding calls, in order
GroundedPictures == [k \in DOMAIN per_picture_grounding |-> per_picture_grounding[k].pic]
IsGroundingCall(c) == c.kind = "grounding"
CalledPictures ==
    LET g == SelectSeq(calls, IsGroundingCall) IN [k \in DOMAIN g |-> g[k].pic]
Range(f) == {f[k] : k \in DOMAIN f}
Min(a, b) == IF a <= b THEN a ELSE b
\* inner within outer, each side widened by half a unit
WithinTolerance(o, i) ==
    /\ i[1] >= o[1] - 1 /\ i[2] >= o[2] - 1 /\ i[3] <= o[3] + 1 /\ i[4] <= o[4] + 1
\* the children process_page's merge appended to block i
Appended(i) ==
    {layout.blocks[i].children[k] :
        k \in {j \in DOMAIN layout.blocks[i].children : j > Len(before.blocks[i].children)}}

OthersUntouched ==
    \A i \in DOMAIN before.blocks :
        i \notin Range(GroundedPictures) => layout.blocks[i] = before.blocks[i]

\* C4 as stated: with N Picture blocks and max_pictures_per_page = K < N,
\* process_page grounds and merges exactly K pictures, the first K in
\* document order, and the other pictures keep the children they had.
C4_ExactlyFirstK ==
    (pc = "done" /\ max_pictures_per_page < Len(AllPictures)) =>
        /\ Len(per_picture_grounding) = max_pictures_per_page
        /\ GroundedPictures = SubSeq(AllPictures, 1, max_pictures_per_page)
        /\ CalledPictures = GroundedPictures
        /\ OthersUntouched

\* C4, amended: with N Picture blocks, V of them with a 4-element bbox, and
\* max_pictures_per_page = K < N, process_page grounds and merges exactly
\* min(K, V) pictures, the first min(K, V) of those with a 4-element bbox in
\* document order, and every other block keeps the children it had.
C4_FirstKValid ==
    (pc = "done" /\ max_pictures_per_page < Len(AllPictures)) =>
        LET m == Min(max_pictures_per_page, Len(WellFormedPictures))
        IN  /\ Len(per_picture_grounding) = m
            /\ GroundedPictures = SubSeq(WellFormedPictures, 1, m)
            /\ CalledPictures = GroundedPictures
            /\ OthersUntouched

\* a page whose cap of one went to the picture after a malformed one, and
\* left a later well-formed picture with the child it had
C4_Witness ==
    /\ pc = "done"
    /\ max_pictures_per_page = 1
    /\ Len(AllPictures) = 3
    /\ Len(per_picture_grounding) = 1
    /\ \E i \in Range(AllPictures) :
          ~ IsValidPicture(i) /\ i < per_picture_grounding[1].pic
    /\ \E j \in Range(WellFormedPictures) :
          /\ j \notin Range(GroundedPictures)
          /\ layout.blocks[j].children # <<>>
          /\ layout.blocks[j] = before.blocks[j]

NoRepeatedCall == \A a, b \in DOMAIN calls : a # b => calls[a] # calls[b]

\* C6: when the layout call or a grounding call fails, process_page returns
\* no document, no call is issued twice, and no block has received children:
\* all grounding calls are over before the merge changes any block, and a
\* document is returned only by a run none of whose calls failed.
C6_FailureAborts ==
    /\ pc = "failed" => (~ returned /\ layout = before)
    /\ pc \in {"collect", "loop", "attach"} => (~ returned /\ layout = before)
    /\ returned => pc = "done"
    /\ NoRepeatedCall
    /\ Len(SelectSeq(calls, IsGroundingCall)) <=
           Len(per_picture_grounding) + (IF pc = "failed" THEN 1 ELSE 0)

\* a grounding call failed after another had returned a fragment that lies in
\* its picture
C6_Witness ==
    /\ pc = "failed"
    /\ Len(calls) >= 3
    /\ Len(per_picture_grounding) >= 1
    /\ LET p == per_picture_grounding[1]
       IN  Candidates(layout.blocks[p.pic].bbox, p.gjson) # {}

-----------------------------------------------------------------------------
(* _contains applied to boxes drawn from a grid *)

Coords == 0..MaxCoord
Boxes == {<<a, b, c, d>> : a \in Coords, b \in Coords, c \in Coords, d \in Coords}
Outers == {<<1, 1, 3, 3>>, <<2, 1, 3, 4>>}

idleMerge ==
    /\ layout = NoDoc /\ before = NoDoc /\ per_picture_grounding = <<>>
    /\ dedup_exact = TRUE /\ ncalls = 0 /\ deduped = 0 /\ layout21 = NoDoc

InitContains ==
    /\ idlePage /\ idleMerge
    /\ pc = "call"
    /\ outer \in Outers
    /\ inner \in Boxes
    /\ tol \in 0..MaxTol
    /\ result = FALSE

\* _contains(outer, inner, tol)
CallContains ==
    /\ pc = "call"
    /\ result' = _contains(outer, inner, tol)
    /\ pc' = "done"
    /\ UNCHANGED <<layout, before, per_picture_grounding, dedup_exact, ncalls,
                   deduped, layout21, outer, inner, tol>>
    /\ UNCHANGED pageVars

\* _contains(outer, inner): tol takes its default
CallContainsDefault ==
    /\ pc = "call"
    /\ tol = DefaultTol
    /\ result' = _contains(outer, inner, DefaultTol)
    /\ pc' = "done_default"
    /\ UNCHANGED <<layout, before, per_picture_grounding, dedup_exact, ncalls,
                   deduped, layout21, outer, inner, tol>>
    /\ UNCHANGED pageVars

NextContains == CallContains \/ CallContainsDefault

SpecContains == InitContains /\ [][NextContains]_vars

\* C8: _contains(outer, inner, tol) with tol >= 0 is true exactly when the four
\* bounds inner.x1 >= outer.x1 - tol, inner.y1 >= outer.y1 - tol,
\* inner.x2 <= outer.x2 + tol, inner.y2 <= outer.y2 + tol all hold, and a
\* violation of the bound on any single coordinate makes it false.
Violates(k) ==
    IF k <= 2 THEN inner[k] < outer[k] - tol ELSE inner[k] > outer[k] + tol

C8_ContainsIff ==
    pc \in {"done", "done_default"} =>
        /\ result = (~ \E k \in 1..4 : Violates(k))
        /\ \A k \in 1..4 : Violates(k) => result = FALSE

\* a call that returned false for a box that breaks one bound only, by one step
C8_Witness ==
    /\ pc = "done"
    /\ result = FALSE
    /\ tol = 1
    /\ Cardinality({k \in 1..4 : Violates(k)}) = 1
    /\ inner[1] = outer[1] - tol - 1

====
